---- MODULE Spec2Model ----
(***************************************************************************)
(* State-based counter CRDTs of src/src/lib.rs: GCounter (a map from       *)
(* ReplicaID to a u64 count) and PNCounter (two GCounters, inc and dec).   *)
(*                                                                         *)
(* u64 is modelled as 0..MaxCount with arithmetic modulo MaxCount + 1; i64 *)
(* as -(SignedMax + 1)..SignedMax with SignedMax the lower half of the     *)
(* unsigned range.  Rust's `+`, `-` and Iterator::sum on integers panic on *)
(* overflow when the crate is built with overflow checks (debug profile)   *)
(* and wrap when it is built without (release profile): the variable       *)
(* `checked` is that build choice, fixed for a whole behaviour.            *)
(***************************************************************************)
EXTENDS Integers, FiniteSets, Sequences, TLC

VARIABLES
    checked,  \* TRUE: overflow checks compiled in (debug); FALSE: release
    A, B, C,  \* three PNCounter values, the inputs of the pure operations
    pn,       \* pn[r]: the PNCounter owned by replica r
    net,      \* snapshots of replica states handed to the transport
    seen,     \* history: seen[r] is the set of updates pn[r] incorporates
    last      \* the last call made and what it returned

vars == <<checked, A, B, C, pn, net, seen, last>>

\* ------------------------------------------------------------- bounds

\* The largest Count (stands for u64::MAX).
MaxCount == 2
\* How many inc/dec calls change a map in the replicated system, in all.
MaxCalls == 3
\* How many snapshots the transport takes.
MaxNet == 2

\* ------------------------------------------------------------- types

ReplicaIDs == {"a", "b"}
Modulus == MaxCount + 1
Count == 0..MaxCount
SignedMax == MaxCount \div 2

Max(x, y) == IF x >= y THEN x ELSE y

\* ---------------------------------------------------------- GCounter

\* GCounter::new: the empty map.
GNew == [k \in {} |-> 0]

\* Every GCounter over the keys K: a map from a subset of K to Count.
GStates(K) == UNION {[S -> Count] : S \in SUBSET K}

\* u64 + u64: panics under overflow checks, wraps otherwise.
AddU64(x, y, chk) ==
    [panic |-> chk /\ x + y > MaxCount, v |-> (x + y) % Modulus]

\* u64 - u64: panics under overflow checks, wraps otherwise.
SubU64(x, y, chk) ==
    [panic |-> chk /\ y > x, v |-> (x - y + Modulus) % Modulus]

\* self.counters.values().sum(): a fold of + over the values, from 0.
RECURSIVE SumValues(_, _, _, _)
SumValues(g, keys, acc, chk) ==
    IF keys = {} \/ acc.panic THEN acc
    ELSE LET k == CHOOSE q \in keys : TRUE
         IN  SumValues(g, keys \ {k}, AddU64(acc.v, g[k], chk), chk)

\* GCounter::value
GValue(g, chk) == SumValues(g, DOMAIN g, [panic |-> FALSE, v |-> 0], chk)

\* Two faulty variants of the first loop of merge: the incoming count
\* replaces the local one; the incoming count is added to the local one.
MergeTakeOther(self, other) ==
    [k \in DOMAIN self |-> IF k \in DOMAIN other THEN other[k] ELSE self[k]]
MergeAddOther(self, other) ==
    [k \in DOMAIN self |->
        IF k \in DOMAIN other THEN (self[k] + other[k]) % Modulus ELSE self[k]]
\* The first loop of GCounter::merge: a key of other that self holds gets
\* the larger count in place.
MergeLocal(self, other) ==
    [k \in DOMAIN self |->
        IF k \in DOMAIN other THEN Max(self[k], other[k]) ELSE self[k]]

\* A faulty variant: the keys self does not hold are forgotten.
NewCountsNone(self, other) == GNew
\* ... and a key self does not hold is pushed on new_counts.
NewCounts(self, other) ==
    [k \in DOMAIN other \ DOMAIN self |-> other[k]]

\* GCounter::merge: the first loop, then the insertion of new_counts.
GMerge(self, other) ==
    LET local == MergeLocal(self, other)
        new_counts == NewCounts(self, other)
    IN  [k \in DOMAIN local \cup DOMAIN new_counts |->
            IF k \in DOMAIN new_counts THEN new_counts[k] ELSE local[k]]

\* A faulty variant: the sum is stored before the overflow is reported.
GIncStoreThenPanic(g, replica, count, chk) ==
    IF replica \in DOMAIN g
    THEN LET s == AddU64(g[replica], count, chk)
         IN  [panic |-> s.panic, g |-> [g EXCEPT ![replica] = s.v]]
    ELSE [panic |-> FALSE,
          g |-> [k \in DOMAIN g \cup {replica} |->
                    IF k = replica THEN count ELSE g[k]]]
\* GCounter::inc: entry(replica).and_modify(|v| *v += count).or_insert(count).
\* A panic of += leaves the map as it was.
GInc(g, replica, count, chk) ==
    IF replica \in DOMAIN g
    THEN LET s == AddU64(g[replica], count, chk)
         IN  [panic |-> s.panic,
              g |-> IF s.panic THEN g ELSE [g EXCEPT ![replica] = s.v]]
    ELSE [panic |-> FALSE,
          g |-> [k \in DOMAIN g \cup {replica} |->
                    IF k = replica THEN count ELSE g[k]]]

\* --------------------------------------------------------- PNCounter

\* PNCounter::new
PNNew == [inc |-> GNew, dec |-> GNew]

PNStates(KI, KD) == [inc : GStates(KI), dec : GStates(KD)]

\* u64 -> i64 by try_into().expect("overflow").
TryIntoI64(u) == [panic |-> u > SignedMax, v |-> u]

\* PNCounter::value
PNValue(p, chk) ==
    LET i == GValue(p.inc, chk)
        d == GValue(p.dec, chk)
        diff == SubU64(i.v, d.v, chk)
        conv == TryIntoI64(diff.v)
    IN  IF i.panic \/ d.panic \/ diff.panic \/ conv.panic
        THEN [panic |-> TRUE, v |-> 0]
        ELSE [panic |-> FALSE, v |-> conv.v]

\* PNCounter::merge
PNMerge(self, other) ==
    [inc |-> GMerge(self.inc, other.inc), dec |-> GMerge(self.dec, other.dec)]

\* PNCounter::inc
PNInc(p, replica, count, chk) ==
    LET r == GInc(p.inc, replica, count, chk)
    IN  [panic |-> r.panic, p |-> [p EXCEPT !.inc = r.g]]

\* A faulty variant: dec delegates to the inc GCounter.
PNDecWrongMap(p, replica, count, chk) ==
    LET r == GInc(p.inc, replica, count, chk)
    IN  [panic |-> r.panic, p |-> [p EXCEPT !.inc = r.g]]
\* PNCounter::dec
PNDec(p, replica, count, chk) ==
    LET r == GInc(p.dec, replica, count, chk)
    IN  [panic |-> r.panic, p |-> [p EXCEPT !.dec = r.g]]

\* ------------------------------------- the operations as pure functions

NoCall == [op |-> "none"]

\* The part of the state the pure operations leave at its initial value.
SystemIdle ==
    /\ pn = [r \in ReplicaIDs |-> PNNew]
    /\ net = {}
    /\ seen = [r \in ReplicaIDs |-> {}]

\* Two arbitrary PNCounters A and B, and one call a.merge(b) on them.  B
\* ranges over the same states as A, so the call covers both orders and the
\* merge of a state with its own copy.
InitMerge ==
    /\ checked \in BOOLEAN
    /\ A \in PNStates(ReplicaIDs, ReplicaIDs)
    /\ B \in PNStates(ReplicaIDs, ReplicaIDs)
    /\ C = PNNew
    /\ SystemIdle
    /\ last = NoCall

\* A.merge(B): last.res is A after the call.
CallMerge ==
    /\ last = NoCall
    /\ last' = [op |-> "merge", res |-> PNMerge(A, B)]
    /\ UNCHANGED <<checked, A, B, C, pn, net, seen>>

NextMerge == CallMerge

SpecMerge == InitMerge /\ [][NextMerge]_vars

\* Three PNCounters, and the two calls A.merge(B); A.merge(C).
InitAssoc ==
    /\ checked \in BOOLEAN
    /\ A \in PNStates(ReplicaIDs, {"a"})
    /\ B \in PNStates(ReplicaIDs, {"a"})
    /\ C \in PNStates({"a"}, {"a"})
    /\ SystemIdle
    /\ last = NoCall

\* A.merge(B) and then A.merge(C): last.res is A after both calls.
CallMergeMerge ==
    /\ last = NoCall
    /\ last' = [op |-> "merge_merge", res |-> PNMerge(PNMerge(A, B), C)]
    /\ UNCHANGED <<checked, A, B, C, pn, net, seen>>

NextAssoc == CallMergeMerge

SpecAssoc == InitAssoc /\ [][NextAssoc]_vars

\* ------------------------------------------------------ merge's algebra

Parts == {"inc", "dec"}

\* C2: merge is commutative: A.merge(B) leaves in A the maps that B.merge(A)
\* leaves in B, for both GCounters of a PNCounter, and value() of the two
\* results (of each GCounter and of the PNCounter) is the same.
MergeCommutative ==
    last.op = "merge" =>
        /\ last.res = PNMerge(B, A)
        /\ \A f \in Parts :
              /\ last.res[f] = GMerge(B[f], A[f])
              /\ GValue(last.res[f], checked) = GValue(GMerge(B[f], A[f]), checked)
        /\ PNValue(last.res, checked) = PNValue(PNMerge(B, A), checked)

\* A and B disagree in both directions and each holds a key the other lacks.
MergeCommutativeWitness ==
    /\ last.op = "merge"
    /\ DOMAIN A.inc = ReplicaIDs /\ DOMAIN B.inc = ReplicaIDs
    /\ A.inc["a"] > B.inc["a"] /\ A.inc["b"] < B.inc["b"]
    /\ DOMAIN A.dec = {"a"} /\ DOMAIN B.dec = {"b"}

\* C3: merge is associative: A.merge(B) followed by A.merge(C) leaves in A
\* the maps that B.merge(C) followed by A.merge(B) leaves in A.
MergeAssociative ==
    last.op = "merge_merge" =>
        /\ last.res = PNMerge(A, PNMerge(B, C))
        /\ \A f \in Parts : last.res[f] = GMerge(A[f], GMerge(B[f], C[f]))

\* C holds the largest count of a key that A holds and B lacks.
MergeAssociativeWitness ==
    /\ last.op = "merge_merge"
    /\ "a" \in DOMAIN A.inc /\ "a" \notin DOMAIN B.inc /\ "a" \in DOMAIN C.inc
    /\ C.inc["a"] > A.inc["a"]
    /\ DOMAIN A.dec = {"a"} /\ DOMAIN B.dec = {"a"} /\ DOMAIN C.dec = {"a"}
    /\ A.dec["a"] < B.dec["a"] /\ B.dec["a"] < C.dec["a"]

\* C4: merge is idempotent: merging a copy of A into A leaves both maps of A,
\* and value() of each GCounter and of the PNCounter, as they were.
MergeIdempotent ==
    (last.op = "merge" /\ B = A) =>
        /\ last.res = A
        /\ \A f \in Parts : GValue(last.res[f], checked) = GValue(A[f], checked)
        /\ PNValue(last.res, checked) = PNValue(A, checked)

\* A copy of a counter with entries in both maps has been merged into it.
MergeIdempotentWitness ==
    /\ last.op = "merge" /\ B = A
    /\ DOMAIN A.inc = ReplicaIDs /\ DOMAIN A.dec = ReplicaIDs
    /\ A.inc["a"] > 0 /\ A.dec["b"] > 0

\* The sum of the counts of a map, as a number.
RECURSIVE Total(_)
Total(g) ==
    IF DOMAIN g = {} THEN 0
    ELSE LET k == CHOOSE q \in DOMAIN g : TRUE
         IN  g[k] + Total([j \in DOMAIN g \ {k} |-> g[j]])

\* The entries of the receiver after self.merge(other), as C5 states them.
PointwiseMax(self, other, res) ==
    /\ DOMAIN res = DOMAIN self \cup DOMAIN other
    /\ \A k \in DOMAIN self \cap DOMAIN other : res[k] = Max(self[k], other[k])
    /\ \A k \in DOMAIN other \ DOMAIN self : res[k] = other[k]
    /\ \A k \in DOMAIN self \ DOMAIN other : res[k] = self[k]

\* C5 (the maps): GCounter.merge computes the pointwise maximum over the
\* union of the key sets.
MergeIsPointwiseMax ==
    last.op = "merge" => \A f \in Parts : PointwiseMax(A[f], B[f], last.res[f])

\* C5: GCounter.merge computes the pointwise maximum over the union of the
\* key sets, and the value() that is returned afterwards is the sum of these
\* maxima.
MergeMaxAndValue ==
    last.op = "merge" =>
        \A f \in Parts :
            /\ PointwiseMax(A[f], B[f], last.res[f])
            /\ ~GValue(last.res[f], checked).panic =>
                  GValue(last.res[f], checked).v = Total(last.res[f])

\* --------------------------------------------------- the replicated system
\* Each replica r owns pn[r] and, as its single writer, calls inc and dec
\* with its own ReplicaID.  The transport takes snapshots of a replica's
\* whole state and hands them to merge at any replica, in any order and any
\* number of times.

Amounts == 0..MaxCount

\* The updates of replica r among the set s of updates.
OwnUpdates(s, r) == {u \in s : u.who = r}

\* The record of a call that changed the map: who made it, what it added
\* and the count the writer's own entry held after it.
Update(r, kind, count, p) ==
    [who |-> r, kind |-> kind, idx |-> Cardinality(OwnUpdates(seen[r], r)) + 1,
     count |-> count, after |-> p[kind][r]]

\* The calls that changed a map so far: every writer has seen its own.
Calls == Cardinality(UNION {OwnUpdates(seen[r], r) : r \in ReplicaIDs})

Init ==
    /\ checked \in BOOLEAN
    /\ A = PNNew /\ B = PNNew /\ C = PNNew
    /\ pn = [r \in ReplicaIDs |-> PNNew]
    /\ net = {}
    /\ seen = [r \in ReplicaIDs |-> {}]
    /\ last = NoCall

\* pn[r].inc(r, count)
Inc(r, count) ==
    /\ Calls < MaxCalls
    /\ LET res == PNInc(pn[r], r, count, checked)
       IN  /\ pn' = [pn EXCEPT ![r] = res.p]
           /\ seen' = IF res.panic THEN seen
                      ELSE [seen EXCEPT ![r] = @ \cup {Update(r, "inc", count, res.p)}]
           /\ last' = [op |-> "inc", who |-> r, count |-> count, panic |-> res.panic]
    /\ UNCHANGED <<checked, A, B, C, net>>

\* pn[r].dec(r, count)
Dec(r, count) ==
    /\ Calls < MaxCalls
    /\ LET res == PNDec(pn[r], r, count, checked)
       IN  /\ pn' = [pn EXCEPT ![r] = res.p]
           /\ seen' = IF res.panic THEN seen
                      ELSE [seen EXCEPT ![r] = @ \cup {Update(r, "dec", count, res.p)}]
           /\ last' = [op |-> "dec", who |-> r, count |-> count, panic |-> res.panic]
    /\ UNCHANGED <<checked, A, B, C, net>>

\* The transport takes a snapshot of replica r's state.
Send(r) ==
    /\ Cardinality(net) < MaxNet
    /\ [from |-> r, state |-> pn[r], seen |-> seen[r]] \notin net
    /\ net' = net \cup {[from |-> r, state |-> pn[r], seen |-> seen[r]]}
    /\ last' = [op |-> "send"]
    /\ UNCHANGED <<checked, A, B, C, pn, seen>>

\* pn[x].merge(m.state): a snapshot is delivered; the transport keeps it and
\* may deliver it again.
Deliver(x, m) ==
    /\ m.from # x
    /\ pn' = [pn EXCEPT ![x] = PNMerge(@, m.state)]
    /\ seen' = [seen EXCEPT ![x] = @ \cup m.seen]
    /\ last' = [op |-> "merge", who |-> x, from |-> m.from, other |-> m.state]
    /\ UNCHANGED <<checked, A, B, C, net>>

Next ==
    \/ \E r \in ReplicaIDs, count \in Amounts : Inc(r, count)
    \/ \E r \in ReplicaIDs, count \in Amounts : Dec(r, count)
    \/ \E r \in ReplicaIDs : Send(r)
    \/ \E x \in ReplicaIDs, m \in net : Deliver(x, m)

Spec == Init /\ [][Next]_vars

\* ------------------------------------------------ the system's properties

\* C1: convergence: two replicas whose states incorporate the same set of
\* updates hold equal maps (of the inc GCounter and of the dec GCounter)
\* and their value() calls return the same.
Convergence ==
    \A x, y \in ReplicaIDs :
        seen[x] = seen[y] =>
            /\ pn[x] = pn[y]
            /\ \A f \in Parts : GValue(pn[x][f], checked) = GValue(pn[y][f], checked)
            /\ PNValue(pn[x], checked) = PNValue(pn[y], checked)

\* C6: GCounter.value() is monotonic: over a call of inc or merge on a
\* GCounter, the value() read after the call is at least the value() read
\* before it.
GValueMonotonic ==
    [][\A r \in ReplicaIDs, f \in Parts :
          LET before == GValue(pn[r][f], checked)
              after == GValue(pn'[r][f], checked)
          IN  (~before.panic /\ ~after.panic) => after.v >= before.v]_vars

\* The sum of the counts of a set of updates, as a number.
RECURSIVE SumCounts(_)
SumCounts(s) ==
    IF s = {} THEN 0
    ELSE LET u == CHOOSE q \in s : TRUE IN u.count + SumCounts(s \ {u})

AllUpdates == UNION {seen[r] : r \in ReplicaIDs}
NetTotal(s) ==
    SumCounts({u \in s : u.kind = "inc"}) - SumCounts({u \in s : u.kind = "dec"})
Signed == (0 - (SignedMax + 1))..SignedMax

\* C7: after a merge that brings a replica every update recorded by either
\* replica, value() of the merged PNCounter is the sum of all increments
\* minus the sum of all decrements (a number the signed result type holds).
MergedValueIsNetTotal ==
    (/\ last.op = "merge"
     /\ seen[last.who] = AllUpdates
     /\ NetTotal(AllUpdates) \in Signed) =>
        PNValue(pn[last.who], checked) = [panic |-> FALSE, v |-> NetTotal(AllUpdates)]

\* C8: in every reachable PNCounter state whose true difference fits the
\* signed result type, value() returns the inc total minus the dec total,
\* negative when the decrements exceed the increments.
ValueIsSignedDifference ==
    \A r \in ReplicaIDs :
        LET d == Total(pn[r].inc) - Total(pn[r].dec)
        IN  d \in Signed => PNValue(pn[r], checked) = [panic |-> FALSE, v |-> d]

\* The counts the own entry of writer r has held in its GCounter f.
HeldCounts(r, f) == {u.after : u \in {q \in seen[r] : q.who = r /\ q.kind = f}}

\* C9: with a single writer per key, every replica's entry for r is a count
\* r's own entry has held, so at most r's own entry now; and after a
\* snapshot of r is merged into x, x's entry for r is at least the entry of
\* r in the snapshot.
NoLostNoFabricatedIncrement ==
    /\ \A x, r \in ReplicaIDs, f \in Parts :
          r \in DOMAIN pn[x][f] =>
              /\ pn[x][f][r] \in HeldCounts(r, f)
              /\ r \in DOMAIN pn[r][f]
              /\ pn[x][f][r] <= pn[r][f][r]
    /\ last.op = "merge" =>
          \A f \in Parts :
              last.from \in DOMAIN last.other[f] =>
                  /\ last.from \in DOMAIN pn[last.who][f]
                  /\ pn[last.who][f][last.from] >= last.other[f][last.from]

\* The GCounter that a call of inc or dec writes.
PartOf(op) == IF op = "dec" THEN "dec" ELSE "inc"

\* C10: increment overflow never wraps silently: a call of inc or dec that
\* would push the stored count past the maximum either fails explicitly or
\* stores the ceiling; what it stores is never the wrapped sum.
IncNeverWraps ==
    [][\A r \in ReplicaIDs :
          (/\ last'.op \in {"inc", "dec"}
           /\ last'.who = r
           /\ r \in DOMAIN pn[r][PartOf(last'.op)]
           /\ pn[r][PartOf(last'.op)][r] + last'.count > MaxCount) =>
              \/ last'.panic /\ pn' = pn
              \/ pn'[r][PartOf(last'.op)][r] = MaxCount]_vars

\* ------------------------------------------- one call on one PNCounter
\* An arbitrary PNCounter A, and one call on it (two for inc; inc).  The
\* record of the call holds its arguments, whether it panicked, and in res
\* the counter after the call.

\* A.inc(replica, count)
CallInc(replica, count) ==
    /\ last = NoCall
    /\ LET r == PNInc(A, replica, count, checked)
       IN  last' = [op |-> "inc", replica |-> replica, count |-> count,
                    panic |-> r.panic, res |-> r.p]
    /\ UNCHANGED <<checked, A, B, C, pn, net, seen>>

\* A.dec(replica, count)
CallDec(replica, count) ==
    /\ last = NoCall
    /\ LET r == PNDec(A, replica, count, checked)
       IN  last' = [op |-> "dec", replica |-> replica, count |-> count,
                    panic |-> r.panic, res |-> r.p]
    /\ UNCHANGED <<checked, A, B, C, pn, net, seen>>

\* A.inc(replica, x); A.inc(replica, y): the second call is made when the
\* first returned.
CallIncInc(replica, x, y) ==
    /\ last = NoCall
    /\ LET r1 == PNInc(A, replica, x, checked)
           r2 == PNInc(r1.p, replica, y, checked)
       IN  last' = [op |-> "inc_inc", replica |-> replica, x |-> x, y |-> y,
                    panic |-> r1.panic \/ r2.panic,
                    res |-> IF r1.panic THEN r1.p ELSE r2.p]
    /\ UNCHANGED <<checked, A, B, C, pn, net, seen>>

\* A.inc.value(), A.dec.value() and A.value(): value takes &self, so the
\* counter after the call is the counter before it.
CallValue ==
    /\ last = NoCall
    /\ last' = [op |-> "value",
                g |-> [f \in {"inc", "dec"} |-> GValue(A[f], checked)],
                v |-> PNValue(A, checked),
                panic |-> PNValue(A, checked).panic, res |-> A]
    /\ UNCHANGED <<checked, A, B, C, pn, net, seen>>

\* A.merge(other): merge does no arithmetic and unwraps nothing, so it has
\* no panic of its own.
CallMergeOther(other) ==
    /\ last = NoCall
    /\ last' = [op |-> "merge", other |-> other, panic |-> FALSE,
                res |-> PNMerge(A, other)]
    /\ UNCHANGED <<checked, A, B, C, pn, net, seen>>

InitCall ==
    /\ checked \in BOOLEAN
    /\ A \in PNStates(ReplicaIDs, ReplicaIDs)
    /\ B = PNNew /\ C = PNNew
    /\ SystemIdle
    /\ last = NoCall

NextCall ==
    \/ \E r \in ReplicaIDs, count \in Amounts : CallInc(r, count)
    \/ \E r \in ReplicaIDs, count \in Amounts : CallDec(r, count)
    \/ \E r \in ReplicaIDs, x \in Amounts, y \in Amounts : CallIncInc(r, x, y)
    \/ CallValue
    \/ \E other \in PNStates({"a"}, {"a"}) : CallMergeOther(other)

SpecCall == InitCall /\ [][NextCall]_vars

\* C11: PNCounter.value() never returns a number other than the true
\* difference of the two totals: when it returns, what it returns is the
\* total of the inc map minus the total of the dec map.
ValueNeverWrong ==
    (last.op = "value" /\ ~last.v.panic) =>
        last.v.v = Total(A.inc) - Total(A.dec)

\* C12: the empty counter is the identity of merge: merging a new counter
\* into A leaves the maps of A as they were, and merging B into a new counter
\* makes its maps those of B.
EmptyIsIdentity ==
    last.op = "merge" =>
        /\ B = PNNew => last.res = A
        /\ A = PNNew => last.res = B
        /\ \A f \in Parts :
              /\ B[f] = GNew => last.res[f] = A[f]
              /\ A[f] = GNew => last.res[f] = B[f]

\* A counter with entries in both maps has been merged into a new counter.
EmptyIsIdentityWitness ==
    /\ last.op = "merge"
    /\ A = PNNew
    /\ DOMAIN B.inc = ReplicaIDs /\ DOMAIN B.dec = ReplicaIDs
    /\ B.inc["a"] > 0 /\ B.dec["b"] > 0

\* The count of key k in g, zero when g does not hold k.
CountOrZero(g, k) == IF k \in DOMAIN g THEN g[k] ELSE 0

\* C13: inc(R, amount) creates the entry of R with amount when R is absent
\* and adds amount to it otherwise: after a call that returns, and after
\* inc(R, x); inc(R, y), the entry of R is its entry before (zero if absent)
\* plus what was added.
IncAdditive ==
    /\ (last.op = "inc" /\ ~last.panic) =>
          /\ last.replica \in DOMAIN last.res.inc
          /\ last.res.inc[last.replica] =
                CountOrZero(A.inc, last.replica) + last.count
    /\ (last.op = "inc_inc" /\ ~last.panic) =>
          /\ last.replica \in DOMAIN last.res.inc
          /\ last.res.inc[last.replica] =
                CountOrZero(A.inc, last.replica) + last.x + last.y

\* The entries of g other than that of key k.
Others(g, k) == [j \in DOMAIN g \ {k} |-> g[j]]

\* C14: inc touches one entry only: GCounter.inc(R, amount) changes the
\* count of no replica other than R and adds or removes no key other than R;
\* PNCounter.inc leaves the dec map as it was and PNCounter.dec leaves the
\* inc map as it was.
IncTouchesOneEntry ==
    /\ last.op = "inc" =>
          /\ Others(last.res.inc, last.replica) = Others(A.inc, last.replica)
          /\ last.res.dec = A.dec
    /\ last.op = "dec" =>
          /\ Others(last.res.dec, last.replica) = Others(A.dec, last.replica)
          /\ last.res.inc = A.inc

\* dec has added to an entry of a counter that holds both keys in both maps.
IncTouchesOneEntryWitness ==
    /\ last.op = "dec" /\ ~last.panic /\ last.count > 0
    /\ DOMAIN A.inc = ReplicaIDs /\ DOMAIN A.dec = ReplicaIDs
    /\ last.res.dec # A.dec

\* C18: GCounter.value() returns the exact sum of the counts of the map, and
\* reports an error when that sum does not fit the result type.
GValueExactOrError ==
    last.op = "value" =>
        \A f \in Parts :
            IF Total(A[f]) <= MaxCount
            THEN last.g[f] = [panic |-> FALSE, v |-> Total(A[f])]
            ELSE last.g[f].panic

\* C19: failures are atomic: when inc, dec or value ends in an overflow or
\* conversion failure, the maps of the counter are those before the call;
\* merge never fails.
FailuresAtomic ==
    /\ (last.op \in {"inc", "dec", "value"} /\ last.panic) => last.res = A
    /\ last.op = "merge" => ~last.panic

\* inc has failed on a counter whose entry it would have pushed past the
\* maximum.
FailuresAtomicWitness ==
    /\ last.op = "inc" /\ last.panic
    /\ last.replica \in DOMAIN A.inc
    /\ A.inc[last.replica] + last.count > MaxCount

\* ------------------------------------------------------ duplicate delivery
\* Two PNCounters, the call A.merge(B), and the same state B merged into A
\* once more.

InitDup ==
    /\ checked \in BOOLEAN
    /\ A \in PNStates(ReplicaIDs, {"a"})
    /\ B \in PNStates(ReplicaIDs, {"a"})
    /\ C = PNNew
    /\ SystemIdle
    /\ last = NoCall

\* A.merge(B) again: last.once is A after the first merge, last.res is A
\* after the second.
CallMergeAgain ==
    /\ last.op = "merge"
    /\ last' = [op |-> "merge_again", once |-> last.res,
                res |-> PNMerge(last.res, B)]
    /\ UNCHANGED <<checked, A, B, C, pn, net, seen>>

NextDup ==
    \/ CallMerge
    \/ CallMergeAgain

SpecDup == InitDup /\ [][NextDup]_vars

\* g holds every key of h, with a count at least that of h.
Covers(g, h) ==
    /\ DOMAIN h \subseteq DOMAIN g
    /\ \A k \in DOMAIN h : h[k] <= g[k]

\* The count of every replica in h, zero when absent, is at most that in g.
CoversAsCounts(g, h) ==
    \A k \in ReplicaIDs : CountOrZero(h, k) <= CountOrZero(g, k)

\* C16 (as amended): merging B into A again after it has been merged leaves
\* the maps of A identical to those after the single merge; and merging a
\* state whose every key the receiver holds, with a count at least as large
\* in the receiver, leaves the receiver unchanged.
DuplicateMergeHarmless ==
    /\ last.op = "merge_again" => last.res = last.once
    /\ last.op = "merge" =>
          \A f \in Parts : Covers(A[f], B[f]) => last.res[f] = A[f]

\* B, which held a larger count and a key A lacked, has been merged twice.
DuplicateMergeWitness ==
    /\ last.op = "merge_again"
    /\ DOMAIN A.inc = {"a"} /\ DOMAIN B.inc = ReplicaIDs
    /\ B.inc["a"] > A.inc["a"]
    /\ last.once # A

\* C16 (as stated): ... and merging any state that is pointwise less than or
\* equal to the receiver, an absent count being zero, leaves the receiver
\* unchanged.
DuplicateMergeHarmlessAsCounts ==
    /\ last.op = "merge_again" => last.res = last.once
    /\ last.op = "merge" =>
          \A f \in Parts : CoversAsCounts(A[f], B[f]) => last.res[f] = A[f]

\* ------------------------------------------------- growth of the entries

\* Every key of g is a key of h, with a count that is not smaller.
GrowsTo(g, h) ==
    \A k \in DOMAIN g : k \in DOMAIN h /\ h[k] >= g[k]

\* C15: entries only grow: over a call of inc or merge on a GCounter, a key
\* once present is not removed and the count stored for each key does not
\* decrease.
EntriesOnlyGrow ==
    [][\A r \in ReplicaIDs :
          last'.op \in {"inc", "merge"} => GrowsTo(pn[r].inc, pn'[r].inc)]_vars

\* C17: the replicated state of a PNCounter only grows: over a call of inc,
\* dec or merge, no entry of the inc map and no entry of the dec map
\* decreases, a decrement by amount being recorded as amount added to the
\* entry of the replica in the dec map, the inc map left as it was.
PNStateOnlyGrows ==
    [][\A r \in ReplicaIDs :
          /\ GrowsTo(pn[r].inc, pn'[r].inc)
          /\ GrowsTo(pn[r].dec, pn'[r].dec)
          /\ (last'.op = "dec" /\ last'.who = r /\ ~last'.panic) =>
                /\ pn'[r].inc = pn[r].inc
                /\ pn'[r].dec[r] = CountOrZero(pn[r].dec, r) + last'.count]_vars

\* ---------------------------------------------------- anti-entropy, fairly
\* The replicas call inc as single writers, and the state of every replica
\* keeps being delivered to every other replica: Sync(x, y) is the delivery
\* of the present state of y to x.

\* pn[x].merge(the state of y)
Sync(x, y) ==
    /\ x # y
    /\ pn' = [pn EXCEPT ![x] = PNMerge(@, pn[y])]
    /\ seen' = [seen EXCEPT ![x] = @ \cup seen[y]]
    /\ last' = [op |-> "merge", who |-> x, from |-> y, other |-> pn[y]]
    /\ UNCHANGED <<checked, A, B, C, net>>

NextLive ==
    \/ \E r \in ReplicaIDs, count \in Amounts : Inc(r, count)
    \/ \E x \in ReplicaIDs, y \in ReplicaIDs : Sync(x, y)

FairDelivery ==
    \A x \in ReplicaIDs, y \in ReplicaIDs : WF_vars(Sync(x, y))

SpecLive == Init /\ [][NextLive]_vars /\ FairDelivery

\* All replicas hold the same map.
SameMaps == \A x, y \in ReplicaIDs : pn[x].inc = pn[y].inc

\* The total of the amounts passed to the inc calls that returned.
TotalIncremented == SumCounts({u \in AllUpdates : u.kind = "inc"})

\* value() of g is the number n, or fails when the result type cannot hold n.
ValueIs(g, n) ==
    IF n <= MaxCount
    THEN GValue(g, checked) = [panic |-> FALSE, v |-> n]
    ELSE GValue(g, checked).panic

\* C20: eventual consistency: under fair delivery, once the inc calls have
\* ended all replicas eventually hold the same map and stay equal, and
\* value() of every replica is the total of all amounts passed to inc.
EventualConsistency ==
    <>[](/\ SameMaps
         /\ \A r \in ReplicaIDs : ValueIs(pn[r].inc, TotalIncremented))

\* C20 (the maps): under fair delivery all replicas eventually hold the same
\* map and stay equal.
EventuallySameMaps == <>[]SameMaps

====
